---- MODULE Spec2Model ----
(***************************************************************************)
(* Model of src/file_state.rs: the FileState reconciliation engine.         *)
(*                                                                         *)
(* A path is the sequence of its components: 0 stands for the root         *)
(* component of an absolute path, a number >= 1 for a normal component.    *)
(* PathBuf compares component-wise, and the root component orders before   *)
(* every normal component.  A string is a sequence of characters.  An      *)
(* Option is a record [some, val].  A BTreeMap is a function from its keys *)
(* to its values, a BTreeSet and a Vec are sequences (a BTreeSet is kept   *)
(* ascending by the element type's Ord).                                   *)
(***************************************************************************)
EXTENDS Integers, Sequences, FiniteSets, TLC

VARIABLES
    desired_symlinks_map,    \* BTreeMap<PathBuf, SymbolicTarget> handed to new
    desired_templates_map,   \* BTreeMap<PathBuf, TemplateTarget> handed to new
    existing_symlinks_map,   \* BTreeMap<PathBuf, PathBuf> handed to new
    existing_templates_map,  \* BTreeMap<PathBuf, PathBuf> handed to new
    cache_dir,               \* the cache_dir argument of new
    state,                   \* the FileState
    pc,                      \* "build": maps being filled; "ready": FileState built
    op,                      \* the last classification method called
    ret,                     \* its return value, a pair of Vecs
    cmpIn,                   \* descriptions handed to the comparison operators
    cmpOut,                  \* the comparison results
    applyIn,                 \* the receiver and argument of apply_actions
    applyOut                 \* the result of apply_actions

vars == <<desired_symlinks_map, desired_templates_map, existing_symlinks_map,
          existing_templates_map, cache_dir, state, pc, op, ret,
          cmpIn, cmpOut, applyIn, applyOut>>

(***************************************************************************)
(* Bounds                                                                  *)
(***************************************************************************)
MaxSource == 2      \* relative source paths <<1>> .. <<MaxSource>>
MaxEntries == 2     \* entries held by the four input maps together
MaxBaseLen == 2     \* length of the rendered content handed to apply_actions
MaxLarge == 17      \* entries of the large desired map

(***************************************************************************)
(* Option, Ordering, paths                                                 *)
(***************************************************************************)
None == [some |-> FALSE, val |-> <<>>]
Some(v) == [some |-> TRUE, val |-> v]

\* Ordering::then
Then(o1, o2) == IF o1 = "Equal" THEN o2 ELSE o1

\* Ord for PathBuf: component-wise, a proper prefix is Less
RECURSIVE PathCmp(_, _)
PathCmp(p, q) ==
    IF p = <<>> /\ q = <<>> THEN "Equal"
    ELSE IF p = <<>> THEN "Less"
    ELSE IF q = <<>> THEN "Greater"
    ELSE IF Head(p) < Head(q) THEN "Less"
    ELSE IF Head(p) > Head(q) THEN "Greater"
    ELSE PathCmp(Tail(p), Tail(q))

is_absolute(p) == p # <<>> /\ Head(p) = 0

\* Path::join: an absolute argument replaces the receiver
join(base, p) == IF is_absolute(p) THEN p ELSE base \o p

(***************************************************************************)
(* Input values                                                            *)
(***************************************************************************)
SourcePaths == {<<n>> : n \in 1..MaxSource} \cup {<<0, 1>>}
TargetPaths == {<<1>>, <<2>>}
CacheDirs == {<<3>>, <<0, 3>>}
Owners == {None, Some(<<"u">>)}
Appends == {None, Some(<<"A">>)}
Prepends == {None, Some(<<"P">>)}

SymbolicTargets == [target : TargetPaths, owner : Owners]
TemplateTargets ==
    [target : TargetPaths, owner : Owners, append : Appends, prepend : Prepends]

EmptyMap == [k \in {} |-> None]

\* BTreeMap::insert
MapInsert(m, k, v) == [x \in DOMAIN m \cup {k} |-> IF x = k THEN v ELSE m[x]]

\* BTreeMap::into_iter: the (key, value) pairs, ascending by key
RECURSIVE MapIntoIter(_)
MapIntoIter(m) ==
    IF DOMAIN m = {} THEN <<>>
    ELSE LET k == CHOOSE x \in DOMAIN m :
                      \A y \in DOMAIN m : PathCmp(x, y) # "Greater"
             rest == [x \in DOMAIN m \ {k} |-> m[x]]
         IN <<<<k, m[k]>>>> \o MapIntoIter(rest)

(***************************************************************************)
(* Identity and ordering of the descriptions                               *)
(***************************************************************************)
SymlinkDescription_eq(a, b) ==
    a.source = b.source /\ a.target.target = b.target.target

\* mutant: the order also looks at the owner, as a derived Ord would
SymlinkDescription_partial_cmp_with_owner(a, b) ==
    LET x == a.target.owner
        y == b.target.owner
        owners == IF x = y THEN "Equal" ELSE IF ~x.some THEN "Less" ELSE "Greater"
    IN Some(Then(PathCmp(a.source, b.source),
                 Then(PathCmp(a.target.target, b.target.target), owners)))

\* mutant: the order looks at the source alone
SymlinkDescription_partial_cmp_source_only(a, b) ==
    Some(PathCmp(a.source, b.source))

\* mutant: the order looks at the target path first
SymlinkDescription_partial_cmp_target_first(a, b) ==
    Some(Then(PathCmp(a.target.target, b.target.target),
              PathCmp(a.source, b.source)))

SymlinkDescription_partial_cmp(a, b) ==
    Some(Then(PathCmp(a.source, b.source),
              PathCmp(a.target.target, b.target.target)))

\* partial_cmp(other).unwrap()
SymlinkDescription_cmp(a, b) ==
    LET r == SymlinkDescription_partial_cmp(a, b)
    IN IF r.some THEN r.val ELSE "panic"

\* mutant: equality of every field, as a derived PartialEq would
TemplateDescription_eq_derived(a, b) == a = b

TemplateDescription_eq(a, b) ==
    a.source = b.source /\ a.target.target = b.target.target

\* mutant: the order looks at the source alone
TemplateDescription_partial_cmp_source_only(a, b) ==
    Some(PathCmp(a.source, b.source))

TemplateDescription_partial_cmp(a, b) ==
    Some(Then(PathCmp(a.source, b.source),
              PathCmp(a.target.target, b.target.target)))

TemplateDescription_cmp(a, b) ==
    LET r == TemplateDescription_partial_cmp(a, b)
    IN IF r.some THEN r.val ELSE "panic"

(***************************************************************************)
(* Template post-processing                                                *)
(***************************************************************************)
\* mutant: the prepend is put before the rendered content as it came in,
\* losing the append
apply_actions_prepend_drops_append(self, file) ==
    IF self.target.prepend.some
    THEN self.target.prepend.val \o file
    ELSE IF self.target.append.some
         THEN file \o self.target.append.val ELSE file

apply_actions(self, file) ==
    LET f1 == IF self.target.append.some
              THEN file \o self.target.append.val ELSE file
        f2 == IF self.target.prepend.some
              THEN self.target.prepend.val \o f1 ELSE f1
    IN f2

(***************************************************************************)
(* BTreeSet, as an ascending sequence without Equal neighbours             *)
(***************************************************************************)
\* T: Ord, the element type's cmp
Ord_cmp(T, a, b) ==
    IF T = "SymlinkDescription" THEN SymlinkDescription_cmp(a, b)
    ELSE TemplateDescription_cmp(a, b)

\* one element put at its place; an element comparing Equal is replaced
\* (the keys of one map are distinct, so no two collected elements are Equal)
SetInsert(set, x, T) ==
    SelectSeq(set, LAMBDA e : Ord_cmp(T, e, x) = "Less") \o <<x>> \o
    SelectSeq(set, LAMBDA e : Ord_cmp(T, e, x) = "Greater")

\* FromIterator for BTreeSet
collect(items, T) ==
    LET f[i \in 0..Len(items)] ==
            IF i = 0 THEN <<>> ELSE SetInsert(f[i - 1], items[i], T)
    IN f[Len(items)]

\* BTreeSet::contains
contains(set, x, T) == \E j \in DOMAIN set : Ord_cmp(T, x, set[j]) = "Equal"

\* BTreeSet::difference: the elements of self with no Equal element in other,
\* in self's order (every strategy of the library yields this sequence)
difference(self, other, T) ==
    SelectSeq(self, LAMBDA e : ~contains(other, e, T))

\* the size ratio from which the library's intersection iterates the smaller
\* set and searches the larger one
ITER_PERFORMANCE_TIPPING_SIZE_DIFF == 16

\* BTreeSet::intersection.  The library picks a strategy by the ends and the
\* sizes of the two sets; the elements it yields are references into the set
\* it iterates: self when stitching or when self is the small set, other when
\* other is the small set.
intersection(self, other, T) ==
    IF self = <<>> \/ other = <<>> THEN <<>>
    ELSE LET self_min == self[1]
             self_max == self[Len(self)]
             other_min == other[1]
             other_max == other[Len(other)]
             c1 == Ord_cmp(T, self_min, other_max)
             c2 == Ord_cmp(T, self_max, other_min)
         IN IF c1 = "Greater" \/ c2 = "Less" THEN <<>>
            ELSE IF c1 = "Equal" THEN <<self_min>>
            ELSE IF c2 = "Equal" THEN <<self_max>>
            ELSE IF Len(self) <= Len(other) \div ITER_PERFORMANCE_TIPPING_SIZE_DIFF
                 THEN SelectSeq(self, LAMBDA e : contains(other, e, T))
            ELSE IF Len(other) <= Len(self) \div ITER_PERFORMANCE_TIPPING_SIZE_DIFF
                 THEN SelectSeq(other, LAMBDA e : contains(self, e, T))
            ELSE SelectSeq(self, LAMBDA e : contains(other, e, T))

(***************************************************************************)
(* FileState                                                               *)
(***************************************************************************)
symlinks_to_set(symlinks) ==
    LET it == MapIntoIter(symlinks)
    IN collect([i \in DOMAIN it |-> [source |-> it[i][1], target |-> it[i][2]]],
               "SymlinkDescription")

templates_to_set(templates, cache) ==
    LET it == MapIntoIter(templates)
    IN collect([i \in DOMAIN it |->
                   [source |-> it[i][1], target |-> it[i][2],
                    cache |-> join(cache, it[i][1])]],
               "TemplateDescription")

\* the existing-state entries lifted to full targets
LiftSymlinks(existing) ==
    [s \in DOMAIN existing |-> [target |-> existing[s], owner |-> None]]

LiftTemplates(existing) ==
    [s \in DOMAIN existing |->
        [target |-> existing[s], owner |-> None, append |-> None, prepend |-> None]]

FileState_new(dsym, dtpl, esym, etpl, cache) ==
    [desired_symlinks |-> symlinks_to_set(dsym),
     desired_templates |-> templates_to_set(dtpl, cache),
     existing_symlinks |-> symlinks_to_set(LiftSymlinks(esym)),
     existing_templates |-> templates_to_set(LiftTemplates(etpl), cache)]

\* mutant: the difference taken the other way round
deleted_files_swapped(self) ==
    <<difference(self.desired_symlinks, self.existing_symlinks,
                 "SymlinkDescription"),
      difference(self.desired_templates, self.existing_templates,
                 "TemplateDescription")>>

deleted_files(self) ==
    <<difference(self.existing_symlinks, self.desired_symlinks,
                 "SymlinkDescription"),
      difference(self.existing_templates, self.desired_templates,
                 "TemplateDescription")>>

\* mutant: every desired description, the existing ones not taken away
new_files_all_desired(self) ==
    <<self.desired_symlinks, self.desired_templates>>

new_files(self) ==
    <<difference(self.desired_symlinks, self.existing_symlinks,
                 "SymlinkDescription"),
      difference(self.desired_templates, self.existing_templates,
                 "TemplateDescription")>>

old_files(self) ==
    <<intersection(self.desired_symlinks, self.existing_symlinks,
                   "SymlinkDescription"),
      intersection(self.desired_templates, self.existing_templates,
                   "TemplateDescription")>>

EmptyState ==
    [desired_symlinks |-> <<>>, desired_templates |-> <<>>,
     existing_symlinks |-> <<>>, existing_templates |-> <<>>]

(***************************************************************************)
(* Reconciliation pass: the caller fills the four maps, builds the         *)
(* FileState once, then queries it                                         *)
(***************************************************************************)
Entries ==
    Cardinality(DOMAIN desired_symlinks_map) +
    Cardinality(DOMAIN desired_templates_map) +
    Cardinality(DOMAIN existing_symlinks_map) +
    Cardinality(DOMAIN existing_templates_map)

cmpIdle == [kind |-> "none", a |-> None, b |-> None, c |-> None]
applyIdle == [self |-> None, file |-> <<>>]

Init ==
    /\ desired_symlinks_map = EmptyMap
    /\ desired_templates_map = EmptyMap
    /\ existing_symlinks_map = EmptyMap
    /\ existing_templates_map = EmptyMap
    /\ cache_dir = <<>>
    /\ state = EmptyState
    /\ pc = "build"
    /\ op = "none"
    /\ ret = <<<<>>, <<>>>>
    /\ cmpIn = cmpIdle
    /\ cmpOut = None
    /\ applyIn = applyIdle
    /\ applyOut = None

InsertDesiredSymlink ==
    /\ pc = "build" /\ Entries < MaxEntries
    /\ \E s \in SourcePaths, t \in SymbolicTargets :
           desired_symlinks_map' = MapInsert(desired_symlinks_map, s, t)
    /\ UNCHANGED <<desired_templates_map, existing_symlinks_map,
                   existing_templates_map, cache_dir, state, pc, op, ret,
                   cmpIn, cmpOut, applyIn, applyOut>>

InsertDesiredTemplate ==
    /\ pc = "build" /\ Entries < MaxEntries
    /\ \E s \in SourcePaths, t \in TemplateTargets :
           desired_templates_map' = MapInsert(desired_templates_map, s, t)
    /\ UNCHANGED <<desired_symlinks_map, existing_symlinks_map,
                   existing_templates_map, cache_dir, state, pc, op, ret,
                   cmpIn, cmpOut, applyIn, applyOut>>

InsertExistingSymlink ==
    /\ pc = "build" /\ Entries < MaxEntries
    /\ \E s \in SourcePaths, t \in TargetPaths :
           existing_symlinks_map' = MapInsert(existing_symlinks_map, s, t)
    /\ UNCHANGED <<desired_symlinks_map, desired_templates_map,
                   existing_templates_map, cache_dir, state, pc, op, ret,
                   cmpIn, cmpOut, applyIn, applyOut>>

InsertExistingTemplate ==
    /\ pc = "build" /\ Entries < MaxEntries
    /\ \E s \in SourcePaths, t \in TargetPaths :
           existing_templates_map' = MapInsert(existing_templates_map, s, t)
    /\ UNCHANGED <<desired_symlinks_map, desired_templates_map,
                   existing_symlinks_map, cache_dir, state, pc, op, ret,
                   cmpIn, cmpOut, applyIn, applyOut>>

\* FileState::new
New ==
    /\ pc = "build"
    /\ \E c \in CacheDirs :
           /\ cache_dir' = c
           /\ state' = FileState_new(desired_symlinks_map, desired_templates_map,
                                     existing_symlinks_map, existing_templates_map, c)
    /\ pc' = "ready"
    /\ UNCHANGED <<desired_symlinks_map, desired_templates_map,
                   existing_symlinks_map, existing_templates_map, op, ret,
                   cmpIn, cmpOut, applyIn, applyOut>>

DeletedFiles ==
    /\ pc = "ready"
    /\ op' = "deleted"
    /\ ret' = deleted_files(state)
    /\ UNCHANGED <<desired_symlinks_map, desired_templates_map,
                   existing_symlinks_map, existing_templates_map, cache_dir,
                   state, pc, cmpIn, cmpOut, applyIn, applyOut>>

NewFiles ==
    /\ pc = "ready"
    /\ op' = "new"
    /\ ret' = new_files(state)
    /\ UNCHANGED <<desired_symlinks_map, desired_templates_map,
                   existing_symlinks_map, existing_templates_map, cache_dir,
                   state, pc, cmpIn, cmpOut, applyIn, applyOut>>

OldFiles ==
    /\ pc = "ready"
    /\ op' = "old"
    /\ ret' = old_files(state)
    /\ UNCHANGED <<desired_symlinks_map, desired_templates_map,
                   existing_symlinks_map, existing_templates_map, cache_dir,
                   state, pc, cmpIn, cmpOut, applyIn, applyOut>>

Next ==
    \/ InsertDesiredSymlink
    \/ InsertDesiredTemplate
    \/ InsertExistingSymlink
    \/ InsertExistingTemplate
    \/ New
    \/ DeletedFiles
    \/ NewFiles
    \/ OldFiles

Spec == Init /\ [][Next]_vars

(***************************************************************************)
(* A pass over a large desired map of one kind and a small existing map    *)
(***************************************************************************)
LargeSources == {<<k>> : k \in 1..MaxLarge}
LargeSymbolicTarget == [target |-> <<1>>, owner |-> Some(<<"u">>)]
LargeTemplateTarget ==
    [target |-> <<1>>, owner |-> Some(<<"u">>),
     append |-> Some(<<"A">>), prepend |-> Some(<<"P">>)]
SmallExisting ==
    {EmptyMap} \cup
    {[s \in {x} |-> t] : x \in LargeSources, t \in TargetPaths}

InitLarge ==
    /\ \E n \in 0..MaxLarge, e \in SmallExisting, kind \in {"symlinks", "templates"} :
         LET d == {<<k>> : k \in 1..n}
         IN IF kind = "symlinks"
            THEN /\ desired_symlinks_map = [s \in d |-> LargeSymbolicTarget]
                 /\ existing_symlinks_map = e
                 /\ desired_templates_map = EmptyMap
                 /\ existing_templates_map = EmptyMap
            ELSE /\ desired_templates_map = [s \in d |-> LargeTemplateTarget]
                 /\ existing_templates_map = e
                 /\ desired_symlinks_map = EmptyMap
                 /\ existing_symlinks_map = EmptyMap
    /\ cache_dir = <<>>
    /\ state = EmptyState
    /\ pc = "build"
    /\ op = "none"
    /\ ret = <<<<>>, <<>>>>
    /\ cmpIn = cmpIdle
    /\ cmpOut = None
    /\ applyIn = applyIdle
    /\ applyOut = None

NextLarge == New \/ DeletedFiles \/ NewFiles \/ OldFiles

SpecLarge == InitLarge /\ [][NextLarge]_vars

(***************************************************************************)
(* The comparison operators on three descriptions of one kind              *)
(***************************************************************************)
SymlinkDescs == [source : SourcePaths, target : SymbolicTargets]

CmpTemplateTargets ==
    {t \in TemplateTargets :
        t.owner.some = t.append.some /\ t.append.some = t.prepend.some}
TemplateDescs ==
    {[source |-> s, target |-> t, cache |-> join(c, s)] :
        s \in SourcePaths, t \in CmpTemplateTargets, c \in CacheDirs}

InitCmp ==
    /\ \/ \E a \in SymlinkDescs, b \in SymlinkDescs, c \in SymlinkDescs :
            cmpIn = [kind |-> "symlink", a |-> a, b |-> b, c |-> c]
       \/ \E a \in TemplateDescs, b \in TemplateDescs, c \in TemplateDescs :
            cmpIn = [kind |-> "template", a |-> a, b |-> b, c |-> c]
    /\ cmpOut = None
    /\ desired_symlinks_map = EmptyMap
    /\ desired_templates_map = EmptyMap
    /\ existing_symlinks_map = EmptyMap
    /\ existing_templates_map = EmptyMap
    /\ cache_dir = <<>>
    /\ state = EmptyState
    /\ pc = "cmp"
    /\ op = "none"
    /\ ret = <<<<>>, <<>>>>
    /\ applyIn = applyIdle
    /\ applyOut = None

CompareSymlinks ==
    /\ pc = "cmp" /\ cmpIn.kind = "symlink" /\ ~cmpOut.some
    /\ cmpOut' = Some([
           partial_ab |-> SymlinkDescription_partial_cmp(cmpIn.a, cmpIn.b),
           ab |-> SymlinkDescription_cmp(cmpIn.a, cmpIn.b),
           ba |-> SymlinkDescription_cmp(cmpIn.b, cmpIn.a),
           bc |-> SymlinkDescription_cmp(cmpIn.b, cmpIn.c),
           ac |-> SymlinkDescription_cmp(cmpIn.a, cmpIn.c),
           eq_ab |-> SymlinkDescription_eq(cmpIn.a, cmpIn.b)])
    /\ UNCHANGED <<desired_symlinks_map, desired_templates_map,
                   existing_symlinks_map, existing_templates_map, cache_dir,
                   state, pc, op, ret, cmpIn, applyIn, applyOut>>

CompareTemplates ==
    /\ pc = "cmp" /\ cmpIn.kind = "template" /\ ~cmpOut.some
    /\ cmpOut' = Some([
           partial_ab |-> TemplateDescription_partial_cmp(cmpIn.a, cmpIn.b),
           ab |-> TemplateDescription_cmp(cmpIn.a, cmpIn.b),
           ba |-> TemplateDescription_cmp(cmpIn.b, cmpIn.a),
           bc |-> TemplateDescription_cmp(cmpIn.b, cmpIn.c),
           ac |-> TemplateDescription_cmp(cmpIn.a, cmpIn.c),
           eq_ab |-> TemplateDescription_eq(cmpIn.a, cmpIn.b)])
    /\ UNCHANGED <<desired_symlinks_map, desired_templates_map,
                   existing_symlinks_map, existing_templates_map, cache_dir,
                   state, pc, op, ret, cmpIn, applyIn, applyOut>>

NextCmp == CompareSymlinks \/ CompareTemplates

SpecCmp == InitCmp /\ [][NextCmp]_vars

(***************************************************************************)
(* apply_actions on a rendered content                                     *)
(***************************************************************************)
Chars == {"B", " ", "\\"}
Bases == UNION {[1..n -> Chars] : n \in 0..MaxBaseLen}
ApplyAppends == {None, Some(<<>>), Some(<<"A">>), Some(<<" ", "A">>)}
ApplyPrepends == {None, Some(<<>>), Some(<<"P">>), Some(<<"P", " ">>)}

InitApply ==
    /\ \E a \in ApplyAppends, p \in ApplyPrepends, base \in Bases :
         applyIn = [self |-> [source |-> <<1>>,
                              target |-> [target |-> <<1>>, owner |-> None,
                                          append |-> a, prepend |-> p],
                              cache |-> <<3, 1>>],
                    file |-> base]
    /\ applyOut = None
    /\ desired_symlinks_map = EmptyMap
    /\ desired_templates_map = EmptyMap
    /\ existing_symlinks_map = EmptyMap
    /\ existing_templates_map = EmptyMap
    /\ cache_dir = <<>>
    /\ state = EmptyState
    /\ pc = "apply"
    /\ op = "none"
    /\ ret = <<<<>>, <<>>>>
    /\ cmpIn = cmpIdle
    /\ cmpOut = None

ApplyActions ==
    /\ pc = "apply" /\ ~applyOut.some
    /\ applyOut' = Some(apply_actions(applyIn.self, applyIn.file))
    /\ UNCHANGED <<desired_symlinks_map, desired_templates_map,
                   existing_symlinks_map, existing_templates_map, cache_dir,
                   state, pc, op, ret, cmpIn, cmpOut, applyIn>>

NextApply == ApplyActions

SpecApply == InitApply /\ [][NextApply]_vars

(***************************************************************************)
(* Properties                                                              *)
(***************************************************************************)
Range(s) == {s[i] : i \in DOMAIN s}

\* p lies under base: base's components begin p
starts_with(p, base) ==
    Len(base) <= Len(p) /\ SubSeq(p, 1, Len(base)) = base

\* the identity (source, target.target) of a description
Id(d) == <<d.source, d.target.target>>
Ids(seq) == {Id(d) : d \in Range(seq)}
NoRepeat(seq) == Len(seq) = Cardinality(Ids(seq))

DesiredSymlinkIds ==
    {<<s, desired_symlinks_map[s].target>> : s \in DOMAIN desired_symlinks_map}
ExistingSymlinkIds ==
    {<<s, existing_symlinks_map[s]>> : s \in DOMAIN existing_symlinks_map}
DesiredTemplateIds ==
    {<<s, desired_templates_map[s].target>> : s \in DOMAIN desired_templates_map}
ExistingTemplateIds ==
    {<<s, existing_templates_map[s]>> : s \in DOMAIN existing_templates_map}

\* the lexicographic order on identities
IdLess(x, y) ==
    \/ PathCmp(x[1], y[1]) = "Less"
    \/ PathCmp(x[1], y[1]) = "Equal" /\ PathCmp(x[2], y[2]) = "Less"
IdOrder(x, y) ==
    IF IdLess(x, y) THEN "Less" ELSE IF IdLess(y, x) THEN "Greater" ELSE "Equal"
Increasing(seq) ==
    \A i \in 1..(Len(seq) - 1) : IdLess(Id(seq[i]), Id(seq[i + 1]))

Reverse(o) == IF o = "Less" THEN "Greater" ELSE IF o = "Greater" THEN "Less" ELSE o

\* C1: deleted_files() returns, per kind, exactly the existing descriptions
\* whose identity is not among the desired ones, each once.
C1_DeletedExact ==
    (pc = "ready" /\ op = "deleted") =>
        /\ Ids(ret[1]) = ExistingSymlinkIds \ DesiredSymlinkIds
        /\ Ids(ret[2]) = ExistingTemplateIds \ DesiredTemplateIds
        /\ Range(ret[1]) \subseteq Range(state.existing_symlinks)
        /\ Range(ret[2]) \subseteq Range(state.existing_templates)
        /\ NoRepeat(ret[1]) /\ NoRepeat(ret[2])

C1_Witness ==
    /\ pc = "ready" /\ op = "deleted"
    /\ Len(ret[1]) = 1
    /\ DOMAIN desired_symlinks_map # {}

\* C2: new_files() returns, per kind, exactly the desired descriptions whose
\* identity is not among the existing ones, each once.
C2_NewExact ==
    (pc = "ready" /\ op = "new") =>
        /\ Ids(ret[1]) = DesiredSymlinkIds \ ExistingSymlinkIds
        /\ Ids(ret[2]) = DesiredTemplateIds \ ExistingTemplateIds
        /\ \A d \in Range(ret[1]) : d.target = desired_symlinks_map[d.source]
        /\ \A d \in Range(ret[2]) : d.target = desired_templates_map[d.source]
        /\ NoRepeat(ret[1]) /\ NoRepeat(ret[2])

C2_Witness ==
    /\ pc = "ready" /\ op = "new"
    /\ Len(ret[2]) = 1
    /\ DOMAIN existing_templates_map # {}

\* C3: old_files() returns, per kind, exactly the identities that are both
\* desired and existing, each once, and none of them is also returned by
\* deleted_files() or new_files().
C3_OldExact ==
    (pc = "ready" /\ op = "old") =>
        /\ Ids(ret[1]) = DesiredSymlinkIds \cap ExistingSymlinkIds
        /\ Ids(ret[2]) = DesiredTemplateIds \cap ExistingTemplateIds
        /\ NoRepeat(ret[1]) /\ NoRepeat(ret[2])
        /\ \A k \in {1, 2} :
              /\ Ids(ret[k]) \cap Ids(deleted_files(state)[k]) = {}
              /\ Ids(ret[k]) \cap Ids(new_files(state)[k]) = {}

C3_Witness ==
    /\ pc = "ready" /\ op = "old"
    /\ Len(ret[2]) = 1
    /\ ret[1] = <<>>

\* C4: a desired and an existing entry of one kind with the same source and
\* target path are one artifact whatever the desired owner, append and
\* prepend: it is in old_files() and in neither new_files() nor
\* deleted_files().
C4_MetadataIgnored ==
    pc = "ready" =>
        /\ \A s \in DOMAIN desired_symlinks_map \cap DOMAIN existing_symlinks_map :
              desired_symlinks_map[s].target = existing_symlinks_map[s] =>
                 LET id == <<s, existing_symlinks_map[s]>>
                 IN /\ op = "old" => id \in Ids(ret[1])
                    /\ op \in {"new", "deleted"} => id \notin Ids(ret[1])
        /\ \A s \in DOMAIN desired_templates_map \cap DOMAIN existing_templates_map :
              desired_templates_map[s].target = existing_templates_map[s] =>
                 LET id == <<s, existing_templates_map[s]>>
                 IN /\ op = "old" => id \in Ids(ret[2])
                    /\ op \in {"new", "deleted"} => id \notin Ids(ret[2])

C4_Witness ==
    /\ pc = "ready" /\ op = "old"
    /\ \E s \in DOMAIN desired_symlinks_map \cap DOMAIN existing_symlinks_map :
          /\ desired_symlinks_map[s].target = existing_symlinks_map[s]
          /\ desired_symlinks_map[s].owner.some
          /\ <<s, existing_symlinks_map[s]>> \in Ids(ret[1])

\* C5: a source mapped to T1 in the existing map and to a different T2 in the
\* desired map of the same kind gives (source, T1) in deleted_files(),
\* (source, T2) in new_files() and no description of that source in
\* old_files().
C5_TargetChange ==
    pc = "ready" =>
        /\ \A s \in DOMAIN desired_symlinks_map \cap DOMAIN existing_symlinks_map :
              desired_symlinks_map[s].target # existing_symlinks_map[s] =>
                 /\ op = "deleted" => <<s, existing_symlinks_map[s]>> \in Ids(ret[1])
                 /\ op = "new" => <<s, desired_symlinks_map[s].target>> \in Ids(ret[1])
                 /\ op = "old" => \A d \in Range(ret[1]) : d.source # s
        /\ \A s \in DOMAIN desired_templates_map \cap DOMAIN existing_templates_map :
              desired_templates_map[s].target # existing_templates_map[s] =>
                 /\ op = "deleted" => <<s, existing_templates_map[s]>> \in Ids(ret[2])
                 /\ op = "new" => <<s, desired_templates_map[s].target>> \in Ids(ret[2])
                 /\ op = "old" => \A d \in Range(ret[2]) : d.source # s

C5_Witness ==
    /\ pc = "ready" /\ op = "deleted"
    /\ \E s \in DOMAIN desired_symlinks_map \cap DOMAIN existing_symlinks_map :
          /\ desired_symlinks_map[s].target # existing_symlinks_map[s]
          /\ <<s, existing_symlinks_map[s]>> \in Ids(ret[1])

C7_TotalOrder ==
    cmpOut.some =>
        LET r == cmpOut.val
            a == cmpIn.a
            b == cmpIn.b
        IN /\ r.partial_ab.some
           /\ r.ab \in {"Less", "Equal", "Greater"}
           /\ (r.ab = "Equal") = r.eq_ab
           /\ r.eq_ab = (a.source = b.source /\ a.target.target = b.target.target)
           /\ r.ba = Reverse(r.ab)
           /\ (r.ab = "Less" /\ r.bc = "Less") => r.ac = "Less"
           /\ (r.ab = "Equal" /\ r.bc = "Equal") => r.ac = "Equal"
           /\ (r.ab = "Equal") => r.ac = r.bc
           /\ r.ab = IdOrder(Id(a), Id(b))

C7_Witness ==
    /\ cmpOut.some
    /\ cmpIn.kind = "template"
    /\ cmpIn.a # cmpIn.b
    /\ cmpOut.val.ab = "Equal"
    /\ cmpOut.val.bc = "Less"

\* C8: apply_actions(base) is prepend + base + append, an unset prepend or
\* append counting as the empty string; base is kept as it is.
C8_ApplyActions ==
    applyOut.some =>
        LET t == applyIn.self.target
            pre == IF t.prepend.some THEN t.prepend.val ELSE <<>>
            app == IF t.append.some THEN t.append.val ELSE <<>>
        IN applyOut.val = pre \o applyIn.file \o app

C8_Witness ==
    /\ applyOut.some
    /\ applyIn.file = <<"B">>
    /\ applyIn.self.target.append = Some(<<"A">>)
    /\ applyIn.self.target.prepend = Some(<<"P">>)
    /\ applyOut.val = <<"P", "B", "A">>

\* C9: every template description built by FileState::new has cache equal to
\* cache_root joined with its source, the desired and the existing
\* description of one source carry the same cache path, and every cache path
\* lies under cache_root.
C9_CacheUnderRoot ==
    pc = "ready" =>
        LET all == Range(state.desired_templates) \cup Range(state.existing_templates)
        IN /\ \A d \in all : d.cache = join(cache_dir, d.source)
           /\ \A d \in all, e \in all : d.source = e.source => d.cache = e.cache
           /\ \A d \in all : starts_with(d.cache, cache_dir)

\* C10: every description returned by old_files() is the desired-state
\* description of its identity: owner, append and prepend are those of the
\* desired map, whatever the sizes of the two sets.
C10_OldIsDesired ==
    (pc = "ready" /\ op = "old") =>
        /\ \A d \in Range(ret[1]) :
              d.source \in DOMAIN desired_symlinks_map /\
              d.target = desired_symlinks_map[d.source]
        /\ \A d \in Range(ret[2]) :
              d.source \in DOMAIN desired_templates_map /\
              d.target = desired_templates_map[d.source]

====
